---- MODULE Spec2Model ----
(***************************************************************************)
(* GradViT (src/gradvit.py): a Vision Transformer with simulated           *)
(* fixed-point arithmetic whose depth grows during training.               *)
(*                                                                         *)
(* Three state machines share this module:                                 *)
(*   Spec       the script's run: model/optimizer/scheduler construction,  *)
(*              the epoch loop (train, growth, validate), the checkpoint   *)
(*              save, and a second run of the script with load_model = 1;  *)
(*   SpecQuant  fixed_point_quantize applied to bounded inputs;            *)
(*   SpecShape  FixedPointViT construction and a first forward pass over   *)
(*              bounded hyperparameter sets.                               *)
(*                                                                         *)
(* Units.  Losses and gradient norms are floats in the source; they are    *)
(* integers in hundredths here (0.3 is 30, 0.95 is 95).  weight_decay is   *)
(* in units of 1e-4.  Accuracies are integer percentages.                  *)
(***************************************************************************)
EXTENDS Integers, Sequences, FiniteSets, TLC

\* ------------------------------------------------------------- bounds
\* Length of the epoch loop (the source sets epochs = 200; 62 covers the
\* growth checks of epochs 40 and 60).
epochs == 62
\* len(train_loader): batches per training epoch.
NumBatches == 2
\* The training signal (loss, gradient norm, hits per batch) is an input.  It
\* is drawn afresh every RegimeLen epochs and is steady in between.
RegimeLen == 20

\* ------------------------------------------------- program constants
depth == 3
batch_size == 64
grad_clip_threshold == 30
grad_threshold == 30
loss_threshold == 95
grow_every_n_epochs == 20

\* The training signals an epoch can see: per-batch gradient norm g, per-batch
\* loss l, per-batch correct predictions c.  The first sits exactly on both
\* growth thresholds, the second exceeds the gradient threshold only, the
\* third the loss threshold only.
Regimes ==
  { [g |-> 30, l |-> 95,  c |-> 48],
    [g |-> 50, l |-> 50,  c |-> 32],
    [g |-> 20, l |-> 100, c |-> 16] }

VARIABLES
  \* --- script globals (lines 181-225)
  load_model,        \* line 214: 0 on the first run, 1 on the rerun
  layers,            \* model.layers: sequence of encoder-layer identities
  optimizer,         \* the global optimizer object
  scheduler,         \* ReduceLROnPlateau: the metrics it was stepped with
  train_losses, train_accuracies, val_losses, val_accuracies,
  growth_epochs, avg_grad_norms,
  checkpoint,        \* the file written by torch.save (line 348)
  \* --- control
  pc,                \* position in the script
  epoch,             \* the epoch loop's variable (line 344)
  regime,            \* the training signal the data currently produces
  \* --- locals of train() (lines 230-295)
  opt_local,         \* train's parameter `optimizer`
  batch_idx, running_loss, correct, total, gradient_norms,
  epoch_loss, epoch_accuracy, avg_grad_norm,
  \* --- observations of the last forward pass and optimizer step
  fwd_layers,        \* the layer stack the in-flight batch's forward pass ran
  stepped,           \* the parameters updated by the last optimizer.step()
  grad_clipped,      \* whether the last batch's gradients were clipped
  val_layers,        \* the layer stack the last validation pass ran
  \* --- fixed_point_quantize harness
  qpc, qx, qscale, qy, qyy,
  \* --- construction harness
  spc, cfg, patch_dim, n_patches

globalVars == <<load_model, layers, optimizer, scheduler, checkpoint>>
histVars   == <<train_losses, train_accuracies, val_losses, val_accuracies,
                growth_epochs, avg_grad_norms>>
localVars  == <<opt_local, batch_idx, running_loss, correct, total,
                gradient_norms, epoch_loss, epoch_accuracy, avg_grad_norm>>
obsVars    == <<fwd_layers, stepped, grad_clipped, val_layers>>
quantVars  == <<qpc, qx, qscale, qy, qyy>>
shapeVars  == <<spc, cfg, patch_dim, n_patches>>
vars == <<globalVars, histVars, localVars, obsVars, pc, epoch, regime,
          quantVars, shapeVars>>

\* ------------------------------------------------------------ helpers
RECURSIVE Sum(_)
Sum(s) == IF s = <<>> THEN 0 ELSE Head(s) + Sum(Tail(s))

\* FixedPointViT.__init__, lines 102-105: `depth` encoder layers.
InitialLayers == [i \in 1..depth |-> i]

\* line 280: a freshly constructed encoder layer (a new identity).
NewLayer(ls) == Len(ls) + 1

\* model.parameters(): embedding, positional embedding, every layer of the
\* stack, classifier.
ModelParameters(ls) ==
  { <<"embedding", 0>>, <<"positional_embedding", 0>>, <<"classifier", 0>> }
    \cup { <<"layers", ls[i]>> : i \in 1..Len(ls) }

\* optim.Adam(params, lr, weight_decay): the optimizer keeps the parameter
\* set it was given at construction.
Adam(params, wd) == [params |-> params, weight_decay |-> wd]

\* Mutation of ShouldGrow: the first multiple of the interval is eligible.
ShouldGrowFromFirstInterval(e, gnorm, loss) ==
  /\ e >= 20
  /\ e % grow_every_n_epochs = 0
  /\ (gnorm > grad_threshold \/ loss > loss_threshold)

\* Mutation of ShouldGrow: the test of the growth interval is left out.
ShouldGrowEveryEpoch(e, gnorm, loss) ==
  /\ e > 20
  /\ (gnorm > grad_threshold \/ loss > loss_threshold)

\* line 276: the growth criteria.
ShouldGrow(e, gnorm, loss) ==
  /\ e > 20
  /\ e % grow_every_n_epochs = 0
  /\ (gnorm > grad_threshold \/ loss > loss_threshold)

\* Mutation of GrowthRecord: the zero-indexed epoch is recorded.
GrowthRecordZeroIndexed(e) == e

\* line 278: the epoch number recorded for a growth event.
GrowthRecord(e) == e + 1

\* Mutation of AppendLayer: the new layer is inserted at the front.
PrependLayer(ls, new) == <<new>> \o ls

\* line 290: model.layers.append(new_layer).
AppendLayer(ls, new) == Append(ls, new)

\* line 293: the optimizer built after growth.
RebuiltOptimizer(ls) == Adam(ModelParameters(ls), 1)

\* lines 293 and 345: which optimizer object the next call of train() gets.
\* The assignment of line 293 binds train's own parameter; the module-level
\* name, which line 345 passes, keeps the object built at line 185.
OptimizerAfterRebuild(global, rebuilt) == global

\* Mutation of ValidationStack: validation runs a copy of the model taken at
\* construction.
ValidationStackAtConstruction(ls) == SubSeq(ls, 1, depth)

\* lines 322 and 346: validate() runs the module-level model object, the one
\* line 290 appends to.
ValidationStack(ls) == ls

\* line 294: scheduler.step(metric).
SchedulerStep(sch, metric) == Append(sch, metric)

\* ------------------------------------------------------------ Init
NoCheckpoint == [written |-> FALSE]

\* No batch has been drawn yet.
NoSignal == [g |-> 0, l |-> 0, c |-> 0]

\* lines 181-208 and 214: the state after construction, at script position p.
TrainState(p) ==
  /\ load_model = 0
  /\ layers = InitialLayers
  /\ optimizer = Adam(ModelParameters(InitialLayers), 0)
  /\ scheduler = <<>>
  /\ train_losses = <<>> /\ train_accuracies = <<>>
  /\ val_losses = <<>> /\ val_accuracies = <<>>
  /\ growth_epochs = <<>> /\ avg_grad_norms = <<>>
  /\ checkpoint = NoCheckpoint
  /\ pc = p
  /\ epoch = 0
  /\ regime = NoSignal
  /\ opt_local = Adam({}, 0)
  /\ batch_idx = 0 /\ running_loss = 0 /\ correct = 0 /\ total = 0
  /\ gradient_norms = <<>>
  /\ epoch_loss = 0 /\ epoch_accuracy = 0 /\ avg_grad_norm = 0
  /\ fwd_layers = <<>> /\ stepped = {} /\ grad_clipped = FALSE
  /\ val_layers = <<>>

TrainInit == TrainState("loop")
\* The training script is not running (the harnesses below run alone).
TrainIdle == TrainState("idle")

\* The source's hyperparameters, lines 137-141.
SourceConfig ==
  [image_size |-> 32, patch_size |-> 4, embed_dim |-> 512, num_heads |-> 16]

QuantIdle == qpc = "idle" /\ qx = 0 /\ qscale = 1 /\ qy = 0 /\ qyy = 0
ShapeIdle == spc = "idle" /\ cfg = SourceConfig /\ patch_dim = 0 /\ n_patches = 0

Init == TrainInit /\ QuantIdle /\ ShapeIdle

\* ------------------------------------------------------------ actions
\* line 344-345: the loop enters epoch `epoch` and calls train().
StartEpoch ==
  /\ pc = "loop"
  /\ epoch < epochs
  /\ IF epoch % RegimeLen = 0 THEN regime' \in Regimes ELSE regime' = regime
  /\ opt_local' = optimizer
  /\ batch_idx' = 0 /\ running_loss' = 0 /\ correct' = 0 /\ total' = 0
  /\ gradient_norms' = <<>>
  /\ pc' = "forward"
  /\ UNCHANGED <<globalVars, histVars, obsVars, epoch, epoch_loss,
                 epoch_accuracy, avg_grad_norm, quantVars, shapeVars>>

\* lines 241-247: zero_grad, forward pass over the current stack, loss.
Forward ==
  /\ pc = "forward"
  /\ fwd_layers' = layers
  /\ pc' = "backward"
  /\ UNCHANGED <<globalVars, histVars, localVars, stepped, grad_clipped,
                 val_layers, epoch, regime, quantVars, shapeVars>>

\* lines 248-256: backward pass, gradient norm, clipping.
Backward ==
  /\ pc = "backward"
  /\ gradient_norms' = Append(gradient_norms, regime.g)
  /\ grad_clipped' = (regime.g > grad_clip_threshold)
  /\ pc' = "step"
  /\ UNCHANGED <<globalVars, histVars, opt_local, batch_idx, running_loss,
                 correct, total, epoch_loss, epoch_accuracy, avg_grad_norm,
                 fwd_layers, stepped, val_layers, epoch, regime, quantVars,
                 shapeVars>>

\* lines 258-264: optimizer.step() and the batch statistics.
OptimizerStep ==
  /\ pc = "step"
  /\ stepped' = opt_local.params
  /\ running_loss' = running_loss + regime.l
  /\ correct' = correct + regime.c
  /\ total' = total + batch_size
  /\ batch_idx' = batch_idx + 1
  /\ pc' = IF batch_idx + 1 < NumBatches THEN "forward" ELSE "aggregate"
  /\ UNCHANGED <<globalVars, histVars, opt_local, gradient_norms, epoch_loss,
                 epoch_accuracy, avg_grad_norm, fwd_layers, grad_clipped,
                 val_layers, epoch, regime, quantVars, shapeVars>>

\* lines 266-273: epoch means, appended to the training histories.
Aggregate ==
  /\ pc = "aggregate"
  /\ epoch_loss' = running_loss \div NumBatches
  /\ epoch_accuracy' = (100 * correct) \div total
  /\ avg_grad_norm' = Sum(gradient_norms) \div Len(gradient_norms)
  /\ train_losses' = Append(train_losses, epoch_loss')
  /\ train_accuracies' = Append(train_accuracies, epoch_accuracy')
  /\ avg_grad_norms' = Append(avg_grad_norms, avg_grad_norm')
  /\ pc' = "growth_check"
  /\ UNCHANGED <<globalVars, val_losses, val_accuracies, growth_epochs,
                 opt_local, batch_idx, running_loss, correct, total,
                 gradient_norms, obsVars, epoch, regime, quantVars, shapeVars>>

\* line 276: the growth decision; lines 295 and 346 when it is negative.
GrowthCheck ==
  /\ pc = "growth_check"
  /\ pc' = IF ShouldGrow(epoch, avg_grad_norm, epoch_loss) THEN "grow" ELSE "validate"
  /\ UNCHANGED <<globalVars, histVars, localVars, obsVars, epoch, regime,
                 quantVars, shapeVars>>

\* lines 277-290: record the growth event, build and append the new layer.
Grow ==
  /\ pc = "grow"
  /\ growth_epochs' = Append(growth_epochs, GrowthRecord(epoch))
  /\ layers' = AppendLayer(layers, NewLayer(layers))
  /\ pc' = "rebuild"
  /\ UNCHANGED <<load_model, optimizer, scheduler, checkpoint, train_losses,
                 train_accuracies, val_losses, val_accuracies, avg_grad_norms,
                 localVars, obsVars, epoch, regime, quantVars, shapeVars>>

\* line 293: a new Adam over all current parameters, with weight decay.
Rebuild ==
  /\ pc = "rebuild"
  /\ opt_local' = RebuiltOptimizer(layers)
  /\ optimizer' = OptimizerAfterRebuild(optimizer, RebuiltOptimizer(layers))
  /\ pc' = "sched"
  /\ UNCHANGED <<load_model, layers, scheduler, checkpoint, histVars,
                 batch_idx, running_loss, correct, total, gradient_norms,
                 epoch_loss, epoch_accuracy, avg_grad_norm, obsVars, epoch,
                 regime, quantVars, shapeVars>>

\* Mutation of StepScheduler: the growth branch ends without the scheduler
\* step.
StepSchedulerSkipped ==
  /\ pc = "sched"
  /\ pc' = "validate"
  /\ UNCHANGED <<globalVars, histVars, localVars, obsVars, epoch, regime,
                 quantVars, shapeVars>>

\* line 294: the scheduler is stepped with the epoch's training loss.
StepScheduler ==
  /\ pc = "sched"
  /\ scheduler' = SchedulerStep(scheduler, epoch_loss)
  /\ pc' = "validate"
  /\ UNCHANGED <<load_model, layers, optimizer, checkpoint, histVars,
                 localVars, obsVars, epoch, regime, quantVars, shapeVars>>

\* lines 314-339 and the loop's next iteration: validation over the current
\* stack, appended to the validation histories.
Validate ==
  /\ pc = "validate"
  /\ val_layers' = ValidationStack(layers)
  /\ val_accuracies' = Append(val_accuracies, (100 * regime.c) \div batch_size)
  /\ val_losses' = Append(val_losses, regime.l)
  /\ epoch' = epoch + 1
  /\ pc' = "loop"
  /\ UNCHANGED <<globalVars, train_losses, train_accuracies, growth_epochs,
                 avg_grad_norms, localVars, fwd_layers, stepped, grad_clipped,
                 regime, quantVars, shapeVars>>

\* lines 348-357: torch.save after the last epoch.  val_losses is not among
\* the saved keys.
Save ==
  /\ pc = "loop"
  /\ epoch = epochs
  /\ checkpoint' =
       [ written |-> TRUE,
         model_layers |-> layers,
         optimizer_weight_decay |-> optimizer.weight_decay,
         scheduler |-> scheduler,
         train_losses |-> train_losses,
         train_accuracies |-> train_accuracies,
         val_accuracies |-> val_accuracies,
         growth_epochs |-> growth_epochs,
         avg_grad_norms |-> avg_grad_norms ]
  /\ pc' = "done"
  /\ UNCHANGED <<load_model, layers, optimizer, scheduler, histVars,
                 localVars, obsVars, epoch, regime, quantVars, shapeVars>>

\* The script is run again with load_model = 1: lines 181-208 build a fresh
\* model of `depth` layers, optimizer and scheduler; lines 216-225 restore
\* the checkpoint.  load_state_dict (line 218) accepts the saved parameters
\* only if the saved stack has the fresh model's length.
RerunRestored ==
  /\ pc = "done"
  /\ load_model = 0
  /\ Len(checkpoint.model_layers) = Len(InitialLayers)
  /\ load_model' = 1
  /\ layers' = InitialLayers
  /\ optimizer' = Adam(ModelParameters(InitialLayers), checkpoint.optimizer_weight_decay)
  /\ scheduler' = checkpoint.scheduler
  /\ train_losses' = checkpoint.train_losses
  /\ train_accuracies' = checkpoint.train_accuracies
  /\ val_accuracies' = checkpoint.val_accuracies
  /\ growth_epochs' = checkpoint.growth_epochs
  /\ avg_grad_norms' = checkpoint.avg_grad_norms
  /\ val_losses' = <<>>
  /\ epoch' = 0
  /\ pc' = "loop"
  /\ UNCHANGED <<checkpoint, localVars, obsVars, regime, quantVars, shapeVars>>

\* The rerun when the checkpoint holds a grown stack: line 218 raises on the
\* unexpected layer parameters and the script ends before any list is
\* restored.
RerunLoadError ==
  /\ pc = "done"
  /\ load_model = 0
  /\ Len(checkpoint.model_layers) # Len(InitialLayers)
  /\ load_model' = 1
  /\ layers' = InitialLayers
  /\ optimizer' = Adam(ModelParameters(InitialLayers), 0)
  /\ scheduler' = <<>>
  /\ train_losses' = <<>> /\ train_accuracies' = <<>>
  /\ val_losses' = <<>> /\ val_accuracies' = <<>>
  /\ growth_epochs' = <<>> /\ avg_grad_norms' = <<>>
  /\ epoch' = 0
  /\ pc' = "load_error"
  /\ UNCHANGED <<checkpoint, localVars, obsVars, regime, quantVars, shapeVars>>

Next ==
  \/ StartEpoch
  \/ Forward
  \/ Backward
  \/ OptimizerStep
  \/ Aggregate
  \/ GrowthCheck
  \/ Grow
  \/ Rebuild
  \/ StepScheduler
  \/ Validate
  \/ Save
  \/ RerunRestored
  \/ RerunLoadError

Spec == Init /\ [][Next]_vars

\* ============================================ fixed_point_quantize
\* A tensor element is an exact rational: an integer count of 1/Grid.  Every
\* scale of Scales divides Grid, so x * scale and k / scale are exact, and
\* Grid is even in every such step so that rounding ties occur.
scale == 2^8
Grid == 6 * scale
Scales == {1, 3, scale}

\* line 24: the clamp interval.
QMin == -(2^15)
QMax == 2^15 - 1

\* How far around each centre the harness draws its inputs.
QWindow == 2

\* torch.round of the rational a/b (b > 0): nearest integer, ties to even.
TorchRound(a, b) ==
  LET q == a \div b
      r == a % b
  IN  IF 2 * r < b THEN q
      ELSE IF 2 * r > b THEN q + 1
      ELSE IF q % 2 = 0 THEN q ELSE q + 1

\* Mutation of Clamp: 16-bit two's-complement wrap-around.
Wrap16(v, lo, hi) == ((v - lo) % (hi - lo + 1)) + lo

\* Tensor.clamp(lo, hi).
Clamp(v, lo, hi) == IF v < lo THEN lo ELSE IF v > hi THEN hi ELSE v

\* Mutation of fixed_point_quantize: the division by scale is left out.
QuantizeNoRescale(x, s) == Clamp(TorchRound(x, Grid \div s), QMin, QMax) * Grid

\* lines 22-24, on one element x (in 1/Grid): round(x * s).clamp(..) / s.
fixed_point_quantize(x, s) ==
  Clamp(TorchRound(x, Grid \div s), QMin, QMax) * (Grid \div s)

\* Inputs: around zero, around both clamp limits and around +-1000.0, each
\* on the grid of the scale, off it, and on and next to the rounding ties.
QCentres(s) == {0, QMin, QMax, 1000 * s, -1000 * s}
QOffsets(step) ==
  {0, 1, step \div 2 - 1, step \div 2, step \div 2 + 1, step - 1} \cap (0..(step - 1))
QInputs(s) ==
  LET step == Grid \div s
  IN  { (c + d) * step + o :
          c \in QCentres(s), d \in (-QWindow)..QWindow, o \in QOffsets(step) }

InitQuant ==
  /\ TrainIdle /\ ShapeIdle
  /\ qpc = "input"
  /\ qscale \in Scales
  /\ qx \in QInputs(qscale)
  /\ qy = 0 /\ qyy = 0

trainVars == <<globalVars, histVars, localVars, obsVars, pc, epoch, regime>>

\* y = fixed_point_quantize(x, scale)
QuantizeOnce ==
  /\ qpc = "input"
  /\ qy' = fixed_point_quantize(qx, qscale)
  /\ qpc' = "once"
  /\ UNCHANGED <<qx, qscale, qyy, trainVars, shapeVars>>

\* yy = fixed_point_quantize(y, scale), as the layers do with values that
\* were quantized before (lines 77-78).
QuantizeAgain ==
  /\ qpc = "once"
  /\ qyy' = fixed_point_quantize(qy, qscale)
  /\ qpc' = "twice"
  /\ UNCHANGED <<qx, qscale, qy, trainVars, shapeVars>>

NextQuant == QuantizeOnce \/ QuantizeAgain

SpecQuant == InitQuant /\ [][NextQuant]_vars

\* ============================================ construction and shapes
ImageSizes == {8, 9, 12}
PatchSizes == {2, 3, 4}
EmbedDims == {4, 6, 9}
HeadCounts == {1, 2, 3, 4}

InitShape ==
  /\ TrainIdle /\ QuantIdle
  /\ spc = "config"
  /\ cfg \in [image_size : ImageSizes, patch_size : PatchSizes,
              embed_dim : EmbedDims, num_heads : HeadCounts]
  /\ patch_dim = 0 /\ n_patches = 0

\* Tensor.unfold(dim, size, step) with size = step = p: windows per side.
UnfoldCount(side, p) == (side - p) \div p + 1

\* line 53: q.view(batch, seq_len, num_heads, -1) needs the last dimension
\* (embed_dim) to split evenly over the heads.
ViewSplitsHeads(c) == c.embed_dim % c.num_heads = 0

\* lines 88-108 (with 67-73 and 42-47): the constructors store what they
\* are given; patch_dim is a floor division.  Nothing is validated.
Construct ==
  /\ spc = "config"
  /\ patch_dim' = (cfg.image_size \div cfg.patch_size) * (cfg.image_size \div cfg.patch_size)
  /\ spc' = "constructed"
  /\ UNCHANGED <<cfg, n_patches, trainVars, quantVars>>

\* lines 110-129 on an image of image_size: the patches are unfolded (a
\* remainder of the image is dropped), embedded and pushed through the
\* layers.
ForwardOk ==
  /\ spc = "constructed"
  /\ n_patches' = UnfoldCount(cfg.image_size, cfg.patch_size)
                    * UnfoldCount(cfg.image_size, cfg.patch_size)
  /\ n_patches' = patch_dim
  /\ ViewSplitsHeads(cfg)
  /\ spc' = "forward_ok"
  /\ UNCHANGED <<cfg, patch_dim, trainVars, quantVars>>

\* line 53 raises in the first layer's attention when the heads do not
\* divide embed_dim.
ForwardShapeError ==
  /\ spc = "constructed"
  /\ n_patches' = UnfoldCount(cfg.image_size, cfg.patch_size)
                    * UnfoldCount(cfg.image_size, cfg.patch_size)
  /\ n_patches' = patch_dim
  /\ ~ViewSplitsHeads(cfg)
  /\ spc' = "forward_error"
  /\ UNCHANGED <<cfg, patch_dim, trainVars, quantVars>>

NextShape == Construct \/ ForwardOk \/ ForwardShapeError

SpecShape == InitShape /\ [][NextShape]_vars

\* =========================================================== claims
\* The phase of the per-epoch state machine a script position belongs to.
Phase(p) ==
  CASE p \in {"forward", "backward", "step"} -> "RunningBatches"
    [] p = "aggregate" -> "Aggregating"
    [] p \in {"growth_check", "grow", "rebuild", "sched"} -> "GrowthCheck"
    [] p = "validate" -> "Validating"
    [] OTHER -> "Recorded"

Last(s) == s[Len(s)]

\* The script is still the same process (no rerun happens in this step).
SameRun == load_model' = load_model

\* History entries restored from the checkpoint of the earlier run.
RunBase == IF pc = "load_error" THEN 0 ELSE load_model * epochs

\* Number of epochs of this run whose training pass has been aggregated.
TrainedEpochs ==
  IF Phase(pc) \in {"GrowthCheck", "Validating"} THEN epoch + 1 ELSE epoch

\* Number of epochs of this run whose growth branch has run to the point
\* where a growth event would be on record.
CheckedEpochs ==
  IF pc \in {"rebuild", "sched", "validate"} THEN epoch + 1 ELSE epoch

\* The growth criteria as the specification words them, read off the
\* recorded histories of zero-indexed epoch e of this run.
TriggeredAt(e) ==
  /\ e > 20
  /\ e % 20 = 0
  /\ (avg_grad_norms[RunBase + e + 1] > 30 \/ train_losses[RunBase + e + 1] > 95)

\* The one-indexed numbers of the epochs checked so far that triggered.
ExpectedGrowthEpochs ==
  LET Triggered(n) == TriggeredAt(n - 1)
  IN  SelectSeq([n \in 1..CheckedEpochs |-> n], Triggered)

\* ---- C1
\* C1: the growth decision of zero-indexed epoch e is positive exactly when
\* e > 20, e is a multiple of 20 and the epoch's average gradient norm exceeds
\* 0.3 or its mean loss exceeds 0.95; no epoch e <= 20 ever triggers.
C1_GrowthDecision ==
  [][ pc = "growth_check" =>
        /\ (pc' = "grow") <=>
             (epoch > 20 /\ epoch % 20 = 0 /\ (avg_grad_norm > 30 \/ epoch_loss > 95))
        /\ (pc' # "grow") <=> (pc' = "validate")
        /\ (epoch <= 20 => pc' = "validate") ]_vars

\* Epoch 40 with an average gradient norm of 0.5 has triggered growth.
C1_Witness == pc = "grow" /\ epoch = 40 /\ avg_grad_norm = 50 /\ epoch_loss <= 95

\* ---- C2
\* C2: every optimizer step updates exactly the parameters of the model's
\* current layer stack (after growth: with the rebuilt optimizer).
C2_StepUsesCurrentParameters ==
  pc = "step" => opt_local.params = ModelParameters(layers)

\* ---- C3
\* C3: the stack has initial_depth + (number of growth events) layers; it
\* changes only by one layer appended when growth triggers; it never shrinks
\* and the layers already there keep their positions.
C3_AppendOnly ==
  /\ [](Len(layers) = depth + Len(growth_epochs))
  /\ [][ SameRun =>
           /\ Len(layers') >= Len(layers)
           /\ \A i \in 1..Len(layers) : layers'[i] = layers[i]
           /\ (layers' # layers =>
                 /\ pc = "grow"
                 /\ Len(layers') = Len(layers) + 1
                 /\ Len(growth_epochs') = Len(growth_epochs) + 1)
           /\ (pc = "growth_check" /\ pc' = "validate" => layers' = layers) ]_vars

\* Triggers at epochs 40 and 60: two layers more than at construction.
C3_Witness ==
  pc = "loop" /\ growth_epochs = <<41, 61>> /\ Len(layers) = depth + 2

\* ---- C4
\* C4: the growth-event list is exactly the increasing sequence of e+1 over
\* the epochs e that triggered so far, entries are never changed or removed,
\* and each entry numbers an epoch whose training has completed.
C4_GrowthEvents ==
  /\ [](pc # "load_error" =>
          /\ growth_epochs = ExpectedGrowthEpochs
          /\ \A i \in 1..Len(growth_epochs) : growth_epochs[i] \in 1..TrainedEpochs
          /\ \A i \in 1..(Len(growth_epochs) - 1) :
               growth_epochs[i] < growth_epochs[i + 1])
  /\ [][ SameRun =>
           /\ Len(growth_epochs') \in {Len(growth_epochs), Len(growth_epochs) + 1}
           /\ \A i \in 1..Len(growth_epochs) : growth_epochs'[i] = growth_epochs[i]
           /\ (growth_epochs' # growth_epochs => Last(growth_epochs') = epoch + 1) ]_vars

\* Both eligible epochs triggered and the run has ended.
C4_Witness == pc = "done" /\ growth_epochs = <<41, 61>>

\* ---- C5
\* C5: at every epoch boundary, also of a run started from a restored
\* checkpoint, the four metric histories and the gradient-norm history have
\* the same length, the number of epochs completed.
C5_HistoriesAligned ==
  pc \in {"loop", "done"} =>
    LET completed == load_model * epochs + epoch
    IN  /\ Len(train_losses) = completed
        /\ Len(train_accuracies) = completed
        /\ Len(val_accuracies) = completed
        /\ Len(val_losses) = completed
        /\ Len(avg_grad_norms) = completed

\* ---- C6
\* C6: quantizing a quantized value changes nothing, and a value on the grid
\* of the scale and within the clamp interval is returned as it is.
C6_Idempotent ==
  LET step == Grid \div qscale
  IN  /\ (qpc = "twice" => qyy = qy)
      /\ (qpc \in {"once", "twice"} /\ qx % step = 0
            /\ (qx \div step) \in QMin..QMax => qy = qx)

\* An off-grid input at scale 256 was moved by the first quantization and
\* left alone by the second.
C6_Witness ==
  /\ qpc = "twice" /\ qscale = scale
  /\ qx % (Grid \div qscale) # 0 /\ qy # qx /\ qyy = qy

\* ---- C7
\* C7: scale * quantize(x, scale) is an integer of [-32768, 32767]; it is
\* 32767 when round(x * scale) >= 32767 and -32768 when round(x * scale)
\* <= -32768; quantize(1000.0, 256) is 32767/256; every input has a result.
C7_Saturates ==
  LET step == Grid \div qscale
      r == TorchRound(qx, step)
  IN  /\ qpc \in {"idle", "input", "once", "twice"}
      /\ (qpc = "input" => ENABLED QuantizeOnce)
      /\ (qpc \in {"once", "twice"} =>
            /\ qy % step = 0
            /\ (qy \div step) \in (-32768)..32767
            /\ (r >= 32767 => qy = 32767 * step)
            /\ (r <= -32768 => qy = (-32768) * step)
            /\ (qscale = 256 /\ qx = 1000 * Grid => qy * 256 = 32767 * Grid))

\* 1000.0 at scale 256 came out as 32767/256.
C7_Witness ==
  /\ qpc = "once" /\ qscale = 256 /\ qx = 1000 * Grid
  /\ qy * 256 = 32767 * Grid

\* ---- C8
\* C8: no model object exists whose embed_dim the heads do not divide or
\* whose image_size the patch size does not divide, and no such
\* configuration gets as far as failing in a forward pass.
C8_RejectedAtConstruction ==
  /\ (spc \in {"constructed", "forward_ok", "forward_error"} =>
        /\ cfg.embed_dim % cfg.num_heads = 0
        /\ cfg.image_size % cfg.patch_size = 0)
  /\ spc # "forward_error"

\* ---- C9
\* C9: the phases of an epoch follow RunningBatches, Aggregating,
\* GrowthCheck, Validating, Recorded; the next epoch starts from Recorded;
\* the stack changes only in GrowthCheck, so a batch in flight sees one
\* stack from forward pass to optimizer step, and validation runs the stack
\* as grown in its epoch.
C9_PhaseOrder ==
  /\ [][ Phase(pc') # Phase(pc) =>
           <<Phase(pc), Phase(pc')>> \in
             { <<"Recorded", "RunningBatches">>,
               <<"RunningBatches", "Aggregating">>,
               <<"Aggregating", "GrowthCheck">>,
               <<"GrowthCheck", "Validating">>,
               <<"Validating", "Recorded">> } ]_vars
  /\ [][ epoch' # epoch /\ SameRun =>
           pc = "validate" /\ pc' = "loop" /\ epoch' = epoch + 1 ]_vars
  /\ [][ layers' # layers /\ SameRun => Phase(pc) = "GrowthCheck" ]_vars
  /\ [](pc \in {"backward", "step"} => fwd_layers = layers)
  /\ [][ pc = "validate" =>
           /\ val_layers' = layers
           /\ (growth_epochs # <<>> /\ Last(growth_epochs) = epoch + 1
                 => Len(val_layers') = Len(fwd_layers) + 1) ]_vars

\* The validation pass of epoch 40 has run on the stack grown in that epoch.
C9_Witness ==
  /\ pc = "loop" /\ epoch = 41 /\ growth_epochs = <<41>>
  /\ val_layers = layers /\ Len(val_layers) = Len(fwd_layers) + 1

\* ---- C10
\* C10: the scheduler is stepped once per growth event, with the triggering
\* epoch's mean training loss, right after the optimizer rebuild and before
\* validation, and at no other time; outside the growth branch the number of
\* scheduler steps equals the number of growth events.
C10_SchedulerSteps ==
  /\ [](IF pc \in {"rebuild", "sched"}
          THEN Len(scheduler) + 1 = Len(growth_epochs)
          ELSE Len(scheduler) = Len(growth_epochs))
  /\ [][ pc = "rebuild" => pc' = "sched" ]_vars
  /\ [][ pc = "sched" => pc' = "validate" ]_vars
  /\ [][ scheduler' # scheduler /\ SameRun =>
           /\ pc = "sched"
           /\ opt_local = Adam(ModelParameters(layers), 1)
           /\ scheduler' = Append(scheduler, Last(train_losses))
           /\ Len(train_losses) = RunBase + epoch + 1
           /\ Len(val_losses) < Len(train_losses) - RunBase ]_vars

\* Two growth events, two scheduler steps, with the losses of epochs 40, 60.
C10_Witness ==
  /\ pc = "loop" /\ growth_epochs = <<41, 61>>
  /\ scheduler = <<train_losses[41], train_losses[61]>>

\* ---- C11
\* The zero-indexed epochs below n that can trigger growth: the multiples of
\* 20 from 40 on.
EligibleEpochs(n) == { e \in 40..(n - 1) : e % 20 = 0 }

\* C11: whatever the gradient norms and losses are, a run has at most as
\* many growth events as there are multiples of 20 in [40, E-1] (at any
\* point: among the epochs checked so far), each recorded at such a multiple
\* plus one; the depth is at most initial_depth plus that number; epoch 20
\* never grows the model.
C11_GrowthBound ==
  /\ Len(growth_epochs) <= Cardinality(EligibleEpochs(CheckedEpochs))
  /\ Cardinality(EligibleEpochs(CheckedEpochs)) <= Cardinality(EligibleEpochs(epochs))
  /\ Len(layers) <= depth + Cardinality(EligibleEpochs(epochs))
  /\ \A i \in 1..Len(growth_epochs) :
       growth_epochs[i] - 1 \in EligibleEpochs(epochs)
  /\ \A i \in 1..Len(growth_epochs) : growth_epochs[i] # 21
  /\ (epoch <= 39 /\ pc # "load_error" => Len(layers) = depth)

\* A complete run in which epoch 20 exceeded the gradient threshold without
\* growing the model and every eligible epoch grew it.
C11_Witness ==
  /\ pc = "done" /\ load_model = 0
  /\ avg_grad_norms[21] > 30
  /\ Len(growth_epochs) = Cardinality(EligibleEpochs(epochs))
  /\ Len(layers) = depth + Cardinality(EligibleEpochs(epochs))

====
